---- MODULE Spec2Model ----
(***************************************************************************)
(* Folder preprocessor of integrity-v2: the initial scan and the watch     *)
(* loop (Run, watchLoop), the per-file routine handleNewFile, the          *)
(* file_status table it reads and writes, and the webhook upload.          *)
(* The process can be killed at any step and started again; the table and  *)
(* the backend survive a restart, everything else is lost.                 *)
(***************************************************************************)
EXTENDS Integers, Sequences, FiniteSets, TLC

\* ------------------------------------------------------------- bounds
MaxAssets == 2      \* assets listed by a signed bundle
MaxCrashes == 1     \* kills of the process injected from outside
MaxEvents == 1      \* filesystem events waiting in the watcher's channel
MaxUploads == 2     \* the backend's count of stored uploads saturates here
MaxSent == 3        \* events fsnotify delivers in the goroutine specification
MaxQueue == 2        \* events waiting in w.Events in the goroutine specification
MaxErrs == 1        \* errors waiting in w.Errors in the goroutine specification
MaxName == 3        \* characters of a file name given to the inclusion filter
MaxLen == 3         \* bytes of a file given to getFileMetadata

\* ---------------------------------------------------------- constants
FileStatusFound == "Found"
FileStatusUploading == "Uploading"
FileStatusSuccess == "Success"
FileStatusError == "Error"

Null == "<NULL>"
NoRow == [status |-> "<none>", sha256 |-> Null, error |-> Null, cid |-> Null]
NoPath == "<nopath>"
NoProject == "<noproject>"

\* ------------------------------------------------------ the file tree
Paths == {"p1", "p2"}
PathDir == [p \in Paths |-> <<"a", "b">>]
PathName == [p \in Paths |-> IF p = "p1" THEN <<"m", ".", "j">> ELSE <<"n", ".", "t">>]
\* filepath.Walk visits the entries of a directory in lexical order
WalkOrder == <<"p1", "p2">>
Dirs == {<<"a">>, <<"a", "b">>}

\* ------------------------------------------------------- the projects
ProjectIds == {"A", "B"}
ProjectPath == [q \in ProjectIds |-> IF q = "A" THEN <<"a">> ELSE <<"a", "b">>]
FileExtensions == [q \in ProjectIds |-> IF q = "A" THEN {} ELSE {<<".", "t">>}]
Projects == <<"A", "B">>
\* config.GetConfig().FolderPreprocessor.FileExtensions
whiteListExtension == {<<".", "t">>, <<".", "j">>}

\* ---------------------------------------------------- pure functions
IsPrefix(s, t) == Len(s) <= Len(t) /\ SubSeq(t, 1, Len(s)) = s

RECURSIVE LastDot(_, _)
LastDot(name, i) ==
    IF i = 0 THEN 0
    ELSE IF name[i] = "." THEN i
    ELSE LastDot(name, i - 1)

\* filepath.Ext: the suffix beginning at the final dot, empty without a dot
Ext(name) ==
    LET d == LastDot(name, Len(name))
    IN  IF d = 0 THEN <<>> ELSE SubSeq(name, d, Len(name))

ignoreFileSuffix == <<".", "p", "a", "r", "t", "i", "a", "l">>

\* checkShouldIncludeFile with the configured allow-list as a parameter
IncludeFile(name, allow) ==
    IF name[1] = "." THEN FALSE
    ELSE IF Ext(name) = ignoreFileSuffix THEN FALSE
    ELSE Ext(name) \in allow

checkShouldIncludeFile(name) == IncludeFile(name, whiteListExtension)

\* mutant: an empty allow-list admits no file
PassesProjectFilter_Listed(p, q) == Ext(PathName[p]) \in FileExtensions[q]

\* the extension test at the head of handleNewFile
PassesProjectFilter(p, q) ==
    IF FileExtensions[q] # {}
    THEN Ext(PathName[p]) \in FileExtensions[q]
    ELSE TRUE

RECURSIVE SeqsUpTo(_, _)
SeqsUpTo(S, n) ==
    IF n = 0 THEN {<<>>}
    ELSE LET shorter == SeqsUpTo(S, n - 1)
         IN  shorter \cup {Append(s, x) : s \in {t \in shorter : Len(t) = n - 1}, x \in S}

PlainKinds == {[type |-> t, assets |-> <<>>] : t \in {"generic", "empty", "wacz"}}
BundleKinds == {[type |-> "proofmode", assets |-> s] : s \in SeqsUpTo({"ok", "missing"}, MaxAssets)}
FileKinds == PlainKinds \cup BundleKinds

\* the backend's content identifier for a stored file
CidOf == [p \in Paths |-> IF p = "p1" THEN "bafy1" ELSE "bafy2"]

VARIABLES
    kind,              \* what each file on disk is
    db,                \* the file_status table: one row per file_path or none
    uploads,           \* per path, the uploads the backend has stored
    crashes,           \* kills injected so far
    run,               \* where Run is: phase, project index, files left
    dirPathToProject,  \* Run's map from watched directory to project
    events,            \* the watcher's Events channel
    h,                 \* the frame of the handleNewFile call in progress
    inv,               \* what the call in progress has done so far
    ret,               \* what the call returned, until the caller takes it
    storeOk            \* the store answers every statement of this behaviour

\* state of the separate specifications below; Spec leaves it at its initial
\* value, and each of them leaves Spec's and the others' state alone
VARIABLES
    table,             \* file_status as the sequence of its rows
    unit,              \* per concurrent unit, the frame of its handleNewFile call
    goMain,            \* the goroutine that executes Run
    goWatch,           \* the goroutine that executes watchLoop
    wEvents,           \* the channel w.Events
    sent,              \* events delivered so far, numbered in arrival order
    taken,             \* the numbers of the events watchLoop received, in order
    active,            \* handleNewFile calls in progress
    watcher,           \* w.Errors, the closed channels, the files watchLoop holds open
    fcall,             \* the last call of the inclusion filter: input and result
    acall,             \* the last annotation: record before, project, record after
    wcall,             \* one call of PostFileToWebHook: both routines and the shared err
    mcall,             \* one call of getFileMetadata: the reads made and the hash states
    jcall              \* one call of ParseJsonToAttributes: the maps, the keys left, the slice

main == <<kind, db, uploads, crashes, run, dirPathToProject, events, h, inv, ret, storeOk>>
race == <<table, unit>>
loop == <<goMain, goWatch, wEvents, sent, taken, active, watcher>>
side == <<race, loop, fcall, acall, wcall, mcall, jcall>>
vars == <<main, side>>

RaceOnly == UNCHANGED <<main, loop, fcall, acall, wcall, mcall, jcall>>
LoopOnly == UNCHANGED <<main, race, fcall, acall, wcall, mcall, jcall>>
FilterOnly == UNCHANGED <<main, race, loop, acall, wcall, mcall, jcall>>
AnnotOnly == UNCHANGED <<main, race, loop, fcall, wcall, mcall, jcall>>
WebhookOnly == UNCHANGED <<main, race, loop, fcall, acall, mcall, jcall>>
MetadataOnly == UNCHANGED <<main, race, loop, fcall, acall, wcall, jcall>>
AttributesOnly == UNCHANGED <<main, race, loop, fcall, acall, wcall, mcall>>

Units == {"u1", "u2"}
\* seen: the status the query returned; inserted: how the INSERT ended;
\* classified, hashed, posts: what the call did after the claim step
UnitIdle == [pc |-> "idle", path |-> NoPath, seen |-> "", inserted |-> "none",
             classified |-> FALSE, hashed |-> FALSE, posts |-> 0, ret |-> "none"]
RaceIdle == table = <<>> /\ unit = [u \in Units |-> UnitIdle]
GoMainStart == [pc |-> "walk", pi |-> 1, fl |-> <<>>, walked |-> {}, walkErr |-> {}]
WatcherStart == [errors |-> 0, closed |-> {}, open |-> 0]
LoopIdle ==
    /\ goMain = GoMainStart
    /\ goWatch = "none"
    /\ wEvents = <<>>
    /\ sent = 0
    /\ taken = <<>>
    /\ active = 0
    /\ watcher = WatcherStart
NoCall == [pc |-> "none"]
SideIdle ==
    /\ RaceIdle /\ LoopIdle
    /\ fcall = NoCall /\ acall = NoCall /\ wcall = NoCall /\ mcall = NoCall
    /\ jcall = NoCall

\* a statement sent to the store fails or not
StoreFails == IF storeOk THEN {FALSE} ELSE BOOLEAN

IdleFrame == [pc |-> "idle", path |-> NoPath, proj |-> NoProject, cid |-> "",
              fileType |-> "", n |-> 0, idx |-> 0, err |-> ""]
\* start: the status the call found; classify, posts, writes: the classifications,
\* upload requests and store writes it has made; stored: the uploads the backend
\* kept; failed: the failure the environment answered with; lost: the Error
\* write did not reach the store; marked: the Uploading write of this call
\* reached the store
NoInv == [start |-> "", classify |-> 0, posts |-> 0, writes |-> 0, stored |-> 0,
          failed |-> "", lost |-> FALSE, marked |-> FALSE]
NoRet == [tag |-> "none", cid |-> "", msg |-> ""]
\* done: the <<project, file>> pairs of the scan whose handleNewFile has returned
RunStart == [phase |-> "scan", pi |-> 1, stage |-> "walk", fl |-> <<>>, done |-> {}]

MainInit ==
    /\ kind \in {k \in [Paths -> FileKinds] : k["p2"] \in PlainKinds}
    /\ db = [p \in Paths |-> NoRow]
    /\ uploads = [p \in Paths |-> 0]
    /\ crashes = 0
    /\ run = RunStart
    /\ dirPathToProject = [d \in Dirs |-> NoProject]
    /\ events = <<>>
    /\ h = IdleFrame
    /\ inv = NoInv
    /\ ret = NoRet
    /\ storeOk \in BOOLEAN

\* the main specification at rest, for the specifications that do not run it
MainIdle ==
    /\ MainInit
    /\ storeOk
    /\ kind = [p \in Paths |-> [type |-> "generic", assets |-> <<>>]]

Init == MainInit /\ SideIdle

\* where every separate specification starts
SideInit == MainIdle /\ SideIdle

\* ------------------------------------------------- the file_status table
queryIfFileExists(p) == db[p]

\* mutant: the insert writes the wrong status constant
setFileStatusFound_Uploading(p) ==
    [db EXCEPT ![p] = [status |-> FileStatusUploading, sha256 |-> Null,
                       error |-> Null, cid |-> Null]]

\* INSERT INTO file_status (file_path, status, created_at, updated_at)
setFileStatusFound(p) ==
    [db EXCEPT ![p] = [status |-> FileStatusFound, sha256 |-> Null,
                       error |-> Null, cid |-> Null]]

\* UPDATE file_status SET status = ... WHERE file_path = p (no row: no effect)
setFileStatusUploading(p) ==
    IF db[p] = NoRow THEN db
    ELSE [db EXCEPT ![p].status = FileStatusUploading]

setFileStatusDone(p, cid) ==
    IF db[p] = NoRow THEN db
    ELSE [db EXCEPT ![p].status = FileStatusSuccess, ![p].cid = cid]

\* mutant: the message is written to the cid column
setFileStatusError_WrongColumn(p, errorMessage) ==
    IF db[p] = NoRow THEN db
    ELSE [db EXCEPT ![p].status = FileStatusError, ![p].cid = errorMessage]

setFileStatusError(p, errorMessage) ==
    IF db[p] = NoRow THEN db
    ELSE [db EXCEPT ![p].status = FileStatusError, ![p].error = errorMessage]

\* ------------------------------------------------------------ the webhook
PostOutcomes == {"200", "200err", "400", "404", "500", "transport"}

\* the body the backend sends with status 200
ResponseBody(o, p) ==
    IF o = "200" THEN [cid |-> CidOf[p], error |-> Null]
    ELSE [cid |-> "", error |-> "server error"]

\* mutant: the error field decodes like any string field
DecodeResponse_Lenient(body) == [ok |-> TRUE, cid |-> body.cid, msg |-> ""]

\* json.Decode into PostGenericWebhookResponse: the field Error has the
\* interface type error, which no JSON value other than null decodes into
DecodeResponse(body) ==
    IF body.error # Null
    THEN [ok |-> FALSE, cid |-> "", msg |-> "json decode error"]
    ELSE [ok |-> TRUE, cid |-> body.cid, msg |-> ""]

PostFileToWebHook(o, p) ==
    IF o = "transport" THEN [ok |-> FALSE, cid |-> "", msg |-> "transport error"]
    ELSE IF o = "400" THEN [ok |-> FALSE, cid |-> "", msg |-> "bad request"]
    ELSE IF o = "404" THEN [ok |-> FALSE, cid |-> "", msg |-> "bad request"]
    ELSE IF o \notin {"200", "200err"}
         THEN [ok |-> FALSE, cid |-> "", msg |-> "bad status code in response"]
    ELSE DecodeResponse(ResponseBody(o, p))

\* the backend stores the file when it answers 200 without an error
BackendStores(o) == o = "200"

Inc(n) == IF n < MaxUploads THEN n + 1 ELSE n

\* ---------------------------------------------------------- handleNewFile
Returns(tag, cid, msg) ==
    /\ h' = [h EXCEPT !.pc = "returned"]
    /\ ret' = [tag |-> tag, cid |-> cid, msg |-> msg]

\* mutant: a record in Error is processed again
StatusSwitch_RetryError(status) ==
    IF status = FileStatusSuccess THEN "return_cid"
    ELSE IF status \in {FileStatusFound, FileStatusUploading, FileStatusError} THEN "classify"
    ELSE "insert"

\* mutant: a record in Success is processed again
StatusSwitch_RetrySuccess(status) ==
    IF status = FileStatusError THEN "return_error"
    ELSE IF status \in {FileStatusFound, FileStatusUploading, FileStatusSuccess} THEN "classify"
    ELSE "insert"

\* the switch on the queried status: where the call goes next
StatusSwitch(status) ==
    IF status = FileStatusSuccess THEN "return_cid"
    ELSE IF status = FileStatusError THEN "return_error"
    ELSE IF status \in {FileStatusFound, FileStatusUploading} THEN "classify"
    ELSE "insert"

\* mutant: the cid local is left at its initial value
StoredCid_Empty(result) == ""

\* a NULL column scans into the empty string
StoredCid(result) == IF result.cid = Null THEN "" ELSE result.cid
StoredError(result) == IF result.error = Null THEN "" ELSE result.error

\* entry: the project's extension allow-list
HNF_Enter(p, q) ==
    /\ h.pc = "idle"
    /\ inv' = [NoInv EXCEPT !.start = db[p].status]
    /\ IF PassesProjectFilter(p, q)
       THEN /\ h' = [IdleFrame EXCEPT !.pc = "query", !.path = p, !.proj = q]
            /\ ret' = NoRet
       ELSE /\ h' = [IdleFrame EXCEPT !.pc = "returned", !.path = p, !.proj = q]
            /\ ret' = [tag |-> "ok", cid |-> "", msg |-> ""]

HNF_Query ==
    /\ h.pc = "query"
    /\ \E fails \in StoreFails :
         IF fails
         THEN Returns("err", "", "error checking if file exists in database")
         ELSE LET result == queryIfFileExists(h.path)
                  next == StatusSwitch(result.status)
              IN  IF next = "return_cid"
                  THEN Returns("ok", StoredCid(result), "")
                  ELSE IF next = "return_error"
                  THEN Returns("err", "", StoredError(result))
                  ELSE /\ h' = [h EXCEPT !.pc = next, !.cid = StoredCid(result)]
                       /\ ret' = ret
    /\ UNCHANGED <<side, kind, storeOk, db, uploads, crashes, run, dirPathToProject, events, inv>>

HNF_Insert ==
    /\ h.pc = "insert"
    /\ inv' = [inv EXCEPT !.writes = @ + 1]
    /\ \E fails \in StoreFails :
         IF fails \/ db[h.path] # NoRow
         THEN /\ Returns("err", "", "error setting file status to found")
              /\ db' = db
         ELSE /\ db' = setFileStatusFound(h.path)
              /\ h' = [h EXCEPT !.pc = "classify"]
              /\ ret' = ret
    /\ UNCHANGED <<side, kind, storeOk, uploads, crashes, run, dirPathToProject, events>>

\* checkFileType: the type found for a readable, non-empty file
FileTypeOf(k) == IF k.type \in {"proofmode", "wacz"} THEN k.type ELSE "generic"

\* what checkFileType and the metadata readers can come back with
ClassifyOutcomes(k) ==
    {"io error"}
      \cup (IF k.type = "empty" THEN {"EOF"} ELSE {"ok"})
      \cup (IF k.type \in {"proofmode", "wacz"} THEN {"verification failed"} ELSE {})

\* the number of metadata records built for a file
MetadataCount(k) == IF k.type = "proofmode" THEN Len(k.assets) ELSE 1

HNF_Classify ==
    /\ h.pc = "classify"
    /\ \E o \in ClassifyOutcomes(kind[h.path]) :
         IF o = "ok"
         THEN /\ h' = [h EXCEPT !.pc = "uploading",
                                !.fileType = FileTypeOf(kind[h.path]),
                                !.n = MetadataCount(kind[h.path])]
              /\ inv' = [inv EXCEPT !.classify = @ + 1]
         ELSE /\ h' = [h EXCEPT !.pc = "seterror", !.err = o]
              /\ inv' = [inv EXCEPT !.classify = @ + 1, !.failed = o]
    /\ UNCHANGED <<side, kind, storeOk, db, uploads, crashes, run, dirPathToProject, events, ret>>

\* after the Uploading write: the second switch on fileType
UploadEntry(fileType) ==
    IF fileType = "proofmode" THEN "zip"
    ELSE IF fileType = "wacz" THEN "done"
    ELSE "upload"

HNF_SetUploading ==
    /\ h.pc = "uploading"
    /\ \E fails \in StoreFails :
         IF fails
         THEN /\ Returns("err", "", "error setting file status to uploading")
              /\ db' = db
              /\ inv' = [inv EXCEPT !.writes = @ + 1]
         ELSE /\ db' = setFileStatusUploading(h.path)
              /\ inv' = [inv EXCEPT !.writes = @ + 1, !.marked = TRUE]
              /\ h' = [h EXCEPT !.pc = UploadEntry(h.fileType)]
              /\ ret' = ret
    /\ UNCHANGED <<side, kind, storeOk, uploads, crashes, run, dirPathToProject, events>>

\* zip.OpenReader and GetProofModeZipFiles, then the loop over the metadatas
HNF_OpenZip ==
    /\ h.pc = "zip"
    /\ \E fails \in BOOLEAN :
         IF fails
         THEN /\ h' = [h EXCEPT !.pc = "seterror", !.err = "io error"]
              /\ inv' = [inv EXCEPT !.failed = "io error"]
         ELSE /\ h' = [h EXCEPT !.pc = IF h.n = 0 THEN "done" ELSE "upload", !.idx = 1]
              /\ inv' = inv
    /\ UNCHANGED <<side, kind, storeOk, db, uploads, crashes, run, dirPathToProject, events, ret>>

\* the asset of the loop's current turn is in the zip
AssetPresent ==
    IF h.fileType = "proofmode" THEN kind[h.path].assets[h.idx] = "ok" ELSE TRUE

\* mutant: the loop over the metadatas ends after its first turn
AfterPost_Once == "done"

\* after a successful post: the next turn of the loop, or the Success write
AfterPost == IF h.fileType = "proofmode" /\ h.idx < h.n THEN "upload" ELSE "done"

\* one upload: open the file (or the zip entry) and post it
HNF_Upload ==
    /\ h.pc = "upload"
    /\ AssetPresent
    /\ \/ /\ h' = [h EXCEPT !.pc = "seterror", !.err = "io error"]
          /\ inv' = [inv EXCEPT !.failed = "io error"]
          /\ UNCHANGED uploads
       \/ \E o \in PostOutcomes :
            LET resp == PostFileToWebHook(o, h.path)
            IN  /\ inv' = [inv EXCEPT !.posts = @ + 1,
                                      !.stored = IF BackendStores(o) THEN @ + 1 ELSE @,
                                      !.failed = IF o = "200" THEN @ ELSE o]
                /\ uploads' = IF BackendStores(o)
                              THEN [uploads EXCEPT ![h.path] = Inc(@)]
                              ELSE uploads
                /\ IF resp.ok
                   THEN h' = [h EXCEPT !.pc = AfterPost, !.cid = resp.cid, !.idx = @ + 1]
                   ELSE h' = [h EXCEPT !.pc = "seterror", !.err = resp.msg]
    /\ UNCHANGED <<side, kind, storeOk, db, crashes, run, dirPathToProject, events, ret>>

\* the asset is not in the zip: err is nil there and err.Error() dereferences
\* it, which ends the process
HNF_Panic ==
    /\ h.pc = "upload"
    /\ ~AssetPresent
    /\ h' = IdleFrame
    /\ inv' = NoInv
    /\ ret' = NoRet
    /\ run' = [RunStart EXCEPT !.phase = "down"]
    /\ dirPathToProject' = [d \in Dirs |-> NoProject]
    /\ events' = <<>>
    /\ UNCHANGED <<side, kind, storeOk, db, uploads, crashes>>

HNF_SetDone ==
    /\ h.pc = "done"
    /\ inv' = [inv EXCEPT !.writes = @ + 1]
    /\ \E fails \in StoreFails :
         IF fails
         THEN /\ Returns("err", "", "error setting file status to done")
              /\ db' = db
         ELSE /\ db' = setFileStatusDone(h.path, h.cid)
              /\ Returns("ok", h.cid, "")
    /\ UNCHANGED <<side, kind, storeOk, uploads, crashes, run, dirPathToProject, events>>

HNF_SetError ==
    /\ h.pc = "seterror"
    /\ \E fails \in StoreFails :
         /\ db' = IF fails THEN db ELSE setFileStatusError(h.path, h.err)
         /\ inv' = [inv EXCEPT !.writes = @ + 1, !.lost = fails]
    /\ Returns("err", "", h.err)
    /\ UNCHANGED <<side, kind, storeOk, uploads, crashes, run, dirPathToProject, events>>

\* ------------------------------------------------------------------- Run
RECURSIVE FilterSeq(_, _)
FilterSeq(s, root) ==
    IF s = <<>> THEN <<>>
    ELSE LET rest == FilterSeq(Tail(s), root)
         IN  IF IsPrefix(root, PathDir[Head(s)]) /\ checkShouldIncludeFile(PathName[Head(s)])
             THEN <<Head(s)>> \o rest
             ELSE rest

\* scanSyncDirectory: the files under the project's root that pass the filter
scanSyncDirectory(q) == FilterSeq(WalkOrder, ProjectPath[q])

\* the directories the walk of the project's root lists
dirList(q) == {d \in Dirs : IsPrefix(ProjectPath[q], d)}

Run_Walk ==
    /\ run.phase = "scan" /\ run.stage = "walk"
    /\ run' = [run EXCEPT !.stage = "files", !.fl = scanSyncDirectory(Projects[run.pi])]
    /\ UNCHANGED <<side, kind, storeOk, db, uploads, crashes, dirPathToProject, events, h, inv, ret>>

Run_ScanFile ==
    /\ run.phase = "scan" /\ run.stage = "files" /\ run.fl # <<>>
    /\ HNF_Enter(Head(run.fl), Projects[run.pi])
    /\ UNCHANGED <<side, kind, storeOk, db, uploads, crashes, run, dirPathToProject, events>>

\* the end of one project's turn: its directories are registered for watching;
\* after the last project the watch loop is started
Run_NextProject ==
    /\ run.phase = "scan" /\ run.stage = "files" /\ run.fl = <<>>
    /\ h.pc = "idle"
    /\ dirPathToProject' = [d \in Dirs |->
            IF d \in dirList(Projects[run.pi]) THEN Projects[run.pi]
            ELSE dirPathToProject[d]]
    /\ run' = IF run.pi < Len(Projects)
              THEN [run EXCEPT !.pi = @ + 1, !.stage = "walk"]
              ELSE [run EXCEPT !.phase = "watch", !.stage = "loop"]
    /\ UNCHANGED <<side, kind, storeOk, db, uploads, crashes, events, h, inv, ret>>

\* handleNewFile has returned: the caller prints the outcome and goes on
Caller_Return ==
    /\ h.pc = "returned"
    /\ h' = IdleFrame
    /\ inv' = NoInv
    /\ ret' = NoRet
    /\ run' = IF run.phase = "scan"
              THEN [run EXCEPT !.fl = Tail(@),
                               !.done = @ \cup {<<Projects[run.pi], Head(run.fl)>>}]
              ELSE run
    /\ UNCHANGED <<side, kind, storeOk, db, uploads, crashes, dirPathToProject, events>>

\* mutant: the watcher and its loop are started before the scan
WatchStarted_Early == run.phase # "down"

\* go watchLoop(...) and watcher.Add come after the loop over the projects
WatchStarted == run.phase = "watch"

\* fsnotify delivers a Create or Rename event for a file of a watched directory
Watch_Event(p) ==
    /\ WatchStarted
    /\ dirPathToProject[PathDir[p]] # NoProject
    /\ Len(events) < MaxEvents
    /\ events' = Append(events, p)
    /\ UNCHANGED <<side, kind, storeOk, db, uploads, crashes, run, dirPathToProject, h, inv, ret>>

\* one turn of watchLoop's select on w.Events
Watch_Handle ==
    /\ WatchStarted
    /\ h.pc = "idle"
    /\ events # <<>>
    /\ events' = Tail(events)
    /\ \/ /\ checkShouldIncludeFile(PathName[Head(events)])
          /\ HNF_Enter(Head(events), dirPathToProject[PathDir[Head(events)]])
       \/ \* os.Open or Stat fails: the event is skipped
          UNCHANGED <<h, inv, ret>>
    /\ UNCHANGED <<side, kind, storeOk, db, uploads, crashes, run, dirPathToProject>>

\* -------------------------------------------------- the process's life
Crash ==
    /\ run.phase # "down"
    /\ crashes < MaxCrashes
    /\ crashes' = crashes + 1
    /\ run' = [RunStart EXCEPT !.phase = "down"]
    /\ h' = IdleFrame
    /\ inv' = NoInv
    /\ ret' = NoRet
    /\ dirPathToProject' = [d \in Dirs |-> NoProject]
    /\ events' = <<>>
    /\ UNCHANGED <<side, kind, storeOk, db, uploads>>

Restart ==
    /\ run.phase = "down"
    /\ run' = RunStart
    /\ UNCHANGED <<side, kind, storeOk, db, uploads, crashes, dirPathToProject, events, h, inv, ret>>

Next ==
    \/ Run_Walk
    \/ Run_ScanFile
    \/ Run_NextProject
    \/ Caller_Return
    \/ \E p \in Paths : Watch_Event(p)
    \/ Watch_Handle
    \/ HNF_Query
    \/ HNF_Insert
    \/ HNF_Classify
    \/ HNF_SetUploading
    \/ HNF_OpenZip
    \/ HNF_Upload
    \/ HNF_Panic
    \/ HNF_SetDone
    \/ HNF_SetError
    \/ Crash
    \/ Restart

Spec == Init /\ [][Next]_vars

\* the program's own steps: everything but kills and filesystem events
ProgramStep ==
    \/ Run_Walk \/ Run_ScanFile \/ Run_NextProject \/ Caller_Return \/ Watch_Handle
    \/ HNF_Query \/ HNF_Insert \/ HNF_Classify \/ HNF_SetUploading \/ HNF_OpenZip
    \/ HNF_Upload \/ HNF_Panic \/ HNF_SetDone \/ HNF_SetError \/ Restart

\* the process runs whenever it can, and a process that died is started again
FairSpec == Init /\ [][Next]_vars /\ WF_vars(ProgramStep)

\* ----------------------------------------------------------- properties
Returned == h.pc = "returned"
Terminal == {FileStatusSuccess, FileStatusError}
Filtered == ~PassesProjectFilter(h.path, h.proj)
FoundRow == [status |-> FileStatusFound, sha256 |-> Null, error |-> Null, cid |-> Null]
QueryError == "error checking if file exists in database"

CallEnds ==
    /\ h.pc \notin {"idle", "returned"}
    /\ h'.pc \in {"idle", "returned"}
    /\ crashes' = crashes

\* C3: with the store answering, a call that found the record in Found or
\* Uploading classifies the file once and returns, and the record is then in
\* Success or Error.
C3_Claim ==
    [][(storeOk /\ CallEnds /\ inv.start \in {FileStatusFound, FileStatusUploading})
        => /\ h'.pc = "returned"
           /\ inv'.classify = 1
           /\ db'[h.path].status \in Terminal]_vars

\* C4: a record in Success or Error is never changed again.
C4_Terminal ==
    [][\A p \in Paths : db[p].status \in Terminal => db'[p] = db[p]]_vars

C4_Witness ==
    /\ Returned /\ inv.start = FileStatusError
    /\ run.phase = "watch"
    /\ crashes = 1
    /\ \E p \in Paths : db[p].status = FileStatusSuccess

\* C5 (as stated): the backend stores at most one upload of a generic file.
C5_Claim ==
    \A p \in Paths : kind[p].type = "generic" => uploads[p] <= 1

\* C5 (amended): one call makes the backend store at most one upload of a
\* generic file; an upload is stored only in a call that found the record not
\* in Success or Error, while the record is in Uploading; after a kill, or a
\* failed Success write, that follows a stored upload the record is still in
\* Uploading and the next call uploads again.
C5_OncePerCall ==
    [][\A p \in Paths :
         /\ db[p].status \in Terminal => uploads'[p] = uploads[p]
         /\ uploads'[p] # uploads[p] =>
              /\ h.path = p
              /\ inv.start \notin Terminal
              /\ db[p].status = FileStatusUploading
              /\ kind[p].type = "generic" => inv'.stored = 1]_vars

C5_Witness ==
    /\ Returned /\ kind[h.path].type = "generic"
    /\ uploads[h.path] = 2
    /\ inv.stored = 1
    /\ inv.start = FileStatusUploading
    /\ db[h.path].status = FileStatusSuccess

\* C6: with the store answering, every file under a project root has its
\* record reach Success or Error.
C6_Claim ==
    \A p \in Paths : <>(~storeOk \/ db[p].status \in Terminal)

\* C7: a call that was not a replay of Success and returns without error leaves
\* the record in Success with the content identifier the backend returned for
\* the file, and returns that identifier.
C7_Claim ==
    (Returned /\ ~Filtered /\ inv.start # FileStatusSuccess /\ ret.tag = "ok") =>
        /\ db[h.path].status = FileStatusSuccess
        /\ db[h.path].cid = ret.cid
        /\ ret.cid = CidOf[h.path]

\* the failures C8 lists: an unreadable file, a read error, a failed
\* verification, HTTP 400 and 404, another status, a transport failure, and a
\* 200 response carrying an error
ListedFailures ==
    {"io error", "EOF", "verification failed", "400", "404", "500", "transport", "200err"}

C9_CidOnlyOnSuccess ==
    \A p \in Paths : db[p].status # FileStatusSuccess => db[p].cid = Null

C9_Witness ==
    \E p \in Paths :
        /\ db[p].status = FileStatusError
        /\ db[p].error = "json decode error"
        /\ db[p].cid = Null
        /\ uploads[p] > 0

\* C10: the query and the insert at the head of a call leave every existing
\* record as it is and never insert for a path that has one; for a path with no
\* record the insert, when the store takes it, adds one record in Found with no
\* digest, content identifier or error, and nothing else.
C10_ClaimOrGet ==
    [][h.pc \in {"query", "insert"} =>
         /\ \A p \in Paths : db[p] # NoRow \/ p # h.path => db'[p] = db[p]
         /\ db'[h.path] \in {db[h.path], FoundRow}
         /\ (h.pc = "query" /\ h'.pc = "insert") => db[h.path] = NoRow
         /\ (h.pc = "insert" /\ h'.pc = "classify") =>
                db[h.path] = NoRow /\ db'[h.path] = FoundRow]_vars

C10_Witness ==
    /\ h.pc = "classify"
    /\ inv.start = NoRow.status /\ inv.writes = 1
    /\ db[h.path] = FoundRow
    /\ \E p \in Paths : p # h.path /\ db[p].status = FileStatusSuccess

\* ------------------------------------ two units racing on one file_status table
\* Two runs of the preprocessor share the table. Each unit runs the claim step
\* of handleNewFile (query, then INSERT when it saw no row) and then the rest of
\* the call; the table is the sequence of its rows, so that a second row for a
\* path is a state the table could hold without its UNIQUE constraint.
RowsOf(p) == {i \in 1..Len(table) : table[i].file_path = p}

\* SELECT status ... WHERE file_path = $1: "" when no row matches
QueryStatus(p) ==
    IF RowsOf(p) = {} THEN ""
    ELSE table[CHOOSE i \in RowsOf(p) : \A j \in RowsOf(p) : i <= j].status

\* mutant: file_path without the UNIQUE constraint
UniqueViolation_None(p) == FALSE

\* file_path TEXT UNIQUE NOT NULL: an INSERT of a path that has a row is refused
UniqueViolation(p) == RowsOf(p) # {}

InsertFound(p) == Append(table, [file_path |-> p, status |-> FileStatusFound])

\* UPDATE file_status SET status = $1 ... WHERE file_path = $4
UpdateStatus(p, status) ==
    [i \in 1..Len(table) |->
        IF table[i].file_path = p THEN [table[i] EXCEPT !.status = status] ELSE table[i]]

U_Returns(u, tag) == unit' = [unit EXCEPT ![u].pc = "returned", ![u].ret = tag]

U_Enter(u, p) ==
    /\ unit[u].pc = "idle"
    /\ unit' = [unit EXCEPT ![u] = [UnitIdle EXCEPT !.pc = "query", !.path = p]]
    /\ table' = table
    /\ RaceOnly

U_Query(u) ==
    /\ unit[u].pc = "query"
    /\ \E fails \in BOOLEAN :
         IF fails
         THEN U_Returns(u, "err")
         ELSE LET status == QueryStatus(unit[u].path)
                  next == StatusSwitch(status)
                  seen == IF status = "" THEN "absent" ELSE status
              IN  IF next = "return_cid"
                  THEN unit' = [unit EXCEPT ![u].pc = "returned", ![u].ret = "ok", ![u].seen = seen]
                  ELSE IF next = "return_error"
                  THEN unit' = [unit EXCEPT ![u].pc = "returned", ![u].ret = "err", ![u].seen = seen]
                  ELSE unit' = [unit EXCEPT ![u].pc = next, ![u].seen = seen]
    /\ table' = table
    /\ RaceOnly

U_Insert(u) ==
    /\ unit[u].pc = "insert"
    /\ \E fails \in BOOLEAN :
         IF UniqueViolation(unit[u].path)
         THEN /\ unit' = [unit EXCEPT ![u].pc = "returned", ![u].ret = "err",
                                      ![u].inserted = "refused"]
              /\ table' = table
         ELSE IF fails
         THEN /\ unit' = [unit EXCEPT ![u].pc = "returned", ![u].ret = "err",
                                      ![u].inserted = "failed"]
              /\ table' = table
         ELSE /\ unit' = [unit EXCEPT ![u].pc = "classify", ![u].inserted = "ok"]
              /\ table' = InsertFound(unit[u].path)
    /\ RaceOnly

U_Classify(u) ==
    /\ unit[u].pc = "classify"
    /\ \E ok \in BOOLEAN :
         IF ok
         THEN /\ unit' = [unit EXCEPT ![u].pc = "hash", ![u].classified = TRUE]
              /\ table' = table
         ELSE /\ unit' = [unit EXCEPT ![u].pc = "returned", ![u].ret = "err",
                                      ![u].classified = TRUE]
              /\ table' = UpdateStatus(unit[u].path, FileStatusError)
    /\ RaceOnly

U_Hash(u) ==
    /\ unit[u].pc = "hash"
    /\ \E ok \in BOOLEAN :
         IF ok
         THEN /\ unit' = [unit EXCEPT ![u].pc = "upload", ![u].hashed = TRUE]
              /\ table' = UpdateStatus(unit[u].path, FileStatusUploading)
         ELSE /\ unit' = [unit EXCEPT ![u].pc = "returned", ![u].ret = "err",
                                      ![u].hashed = TRUE]
              /\ table' = UpdateStatus(unit[u].path, FileStatusError)
    /\ RaceOnly

U_Upload(u) ==
    /\ unit[u].pc = "upload"
    /\ \E ok \in BOOLEAN :
         IF ok
         THEN /\ unit' = [unit EXCEPT ![u].pc = "returned", ![u].ret = "ok", ![u].posts = 1]
              /\ table' = UpdateStatus(unit[u].path, FileStatusSuccess)
         ELSE /\ unit' = [unit EXCEPT ![u].pc = "returned", ![u].ret = "err", ![u].posts = 1]
              /\ table' = UpdateStatus(unit[u].path, FileStatusError)
    /\ RaceOnly

U_Return(u) ==
    /\ unit[u].pc = "returned"
    /\ unit' = [unit EXCEPT ![u] = UnitIdle]
    /\ table' = table
    /\ RaceOnly


RaceNext ==
    \/ \E u \in Units, p \in Paths : U_Enter(u, p)
    \/ \E u \in Units : U_Query(u)
    \/ \E u \in Units : U_Insert(u)
    \/ \E u \in Units : U_Classify(u)
    \/ \E u \in Units : U_Hash(u)
    \/ \E u \in Units : U_Upload(u)
    \/ \E u \in Units : U_Return(u)

RaceSpec == SideInit /\ [][RaceNext]_vars

\* ------------------------------------------------------------------ C11
BothSawAbsent(u, v) ==
    /\ u # v
    /\ unit[u].path = unit[v].path
    /\ unit[u].seen = "absent" /\ unit[v].seen = "absent"
    /\ unit[u].inserted # "none" /\ unit[v].inserted # "none"

\* C11: the table never holds two rows for one file path; when two units both
\* saw a path absent and both sent their INSERT, at most one INSERT succeeded
\* and exactly one when the store failed neither; a unit whose INSERT did not
\* succeed has returned an error and has neither classified, hashed nor posted.
C11_OneClaim ==
    /\ \A p \in Paths : Cardinality(RowsOf(p)) <= 1
    /\ \A u, v \in Units :
         BothSawAbsent(u, v) =>
            /\ ~(unit[u].inserted = "ok" /\ unit[v].inserted = "ok")
            /\ ("failed" \notin {unit[u].inserted, unit[v].inserted}
                  => "ok" \in {unit[u].inserted, unit[v].inserted})
    /\ \A u \in Units :
         unit[u].inserted \in {"refused", "failed"} =>
            /\ unit[u].pc = "returned" /\ unit[u].ret = "err"
            /\ ~unit[u].classified /\ ~unit[u].hashed /\ unit[u].posts = 0

C11_Witness ==
    /\ BothSawAbsent("u1", "u2")
    /\ unit["u1"].inserted = "ok"
    /\ unit["u2"].inserted = "refused"
    /\ unit["u2"].ret = "err"

\* ------------------------------------------------------------------ C12
\* every file the scan of every project lists has had its handleNewFile return
AllScanned ==
    \A i \in 1..Len(Projects) :
        \A j \in 1..Len(scanSyncDirectory(Projects[i])) :
            <<Projects[i], scanSyncDirectory(Projects[i])[j]>> \in run.done

\* the watch loop receives the event at the head of the channel
TakesEvent == events # <<>> /\ events' = Tail(events) /\ run'.phase # "down"

\* C12: the watch loop takes an event from the channel only when handleNewFile
\* has returned for every file of the initial scan of every project, and no
\* call is in progress.
C12_Barrier == [][TakesEvent => AllScanned /\ h.pc = "idle"]_vars

C12_Witness ==
    /\ run.phase = "watch"
    /\ h.pc = "query"
    /\ AllScanned
    /\ run.done # {}

\* ------------------------------------------- the goroutines of Run and watchLoop
\* Run's goroutine scans every project, calling handleNewFile for each file and
\* waiting for it, then starts watchLoop in a second goroutine and adds the
\* watches; watchLoop receives from w.Events and calls handleNewFile itself.
\* filepath.Walk stops at the first error its callback returns; scanSyncDirectory
\* then returns that error with the files collected up to it
WalkResults(pr) ==
    LET full == scanSyncDirectory(pr)
    IN  {[fl |-> full, err |-> FALSE]}
        \cup {[fl |-> SubSeq(full, 1, k), err |-> TRUE] : k \in 0..Len(full)}

\* mutant: Run returns the error of the walk
AfterWalk_Return(err) == IF err THEN "returned" ELSE "files"

\* Run prints the error of scanSyncDirectory and goes on with the lists it got
AfterWalk(err) == "files"

M_Walk ==
    /\ goMain.pc = "walk"
    /\ \E r \in WalkResults(Projects[goMain.pi]) :
          goMain' = [goMain EXCEPT !.pc = AfterWalk(r.err), !.fl = r.fl,
                                   !.walked = @ \cup {goMain.pi},
                                   !.walkErr = IF r.err THEN @ \cup {goMain.pi} ELSE @]
    /\ UNCHANGED <<goWatch, wEvents, sent, taken, active, watcher>>
    /\ LoopOnly

M_Call ==
    /\ goMain.pc = "files" /\ goMain.fl # <<>>
    /\ goMain' = [goMain EXCEPT !.pc = "call"]
    /\ active' = active + 1
    /\ UNCHANGED <<goWatch, wEvents, sent, taken, watcher>>
    /\ LoopOnly

M_CallReturns ==
    /\ goMain.pc = "call"
    /\ goMain' = [goMain EXCEPT !.pc = "files", !.fl = Tail(@)]
    /\ active' = active - 1
    /\ UNCHANGED <<goWatch, wEvents, sent, taken, watcher>>
    /\ LoopOnly

\* the call reaches err.Error() on a nil error (a bundle with a missing asset):
\* the panic ends the process
M_CallPanics ==
    /\ goMain.pc = "call"
    /\ goMain' = [goMain EXCEPT !.pc = "dead"]
    /\ active' = active - 1
    /\ UNCHANGED <<goWatch, wEvents, sent, taken, watcher>>
    /\ LoopOnly

M_NextProject ==
    /\ goMain.pc = "files" /\ goMain.fl = <<>>
    /\ goMain' = IF goMain.pi < Len(Projects)
                 THEN [goMain EXCEPT !.pi = @ + 1, !.pc = "walk"]
                 ELSE [goMain EXCEPT !.pc = "spawn"]
    /\ UNCHANGED <<goWatch, wEvents, sent, taken, active, watcher>>
    /\ LoopOnly

\* fsnotify.NewWatcher, then go watchLoop(...); Run returns the error of a
\* watcher that cannot be created
M_Spawn ==
    /\ goMain.pc = "spawn"
    /\ \/ /\ goMain' = [goMain EXCEPT !.pc = "add"]
          /\ goWatch' = "select"
       \/ /\ goMain' = [goMain EXCEPT !.pc = "nowatcher"]
          /\ UNCHANGED goWatch
    /\ UNCHANGED <<wEvents, sent, taken, active, watcher>>
    /\ LoopOnly

\* watcher.Add for every directory, then the goroutine blocks for ever
M_Add ==
    /\ goMain.pc = "add"
    /\ goMain' = [goMain EXCEPT !.pc = "blocked"]
    /\ UNCHANGED <<goWatch, wEvents, sent, taken, active, watcher>>
    /\ LoopOnly

\* the operations fsnotify reports; watchLoop acts on Create and Rename
EventOps == {"create", "rename", "write"}

Fs_Event(p, op) ==
    /\ goMain.pc = "blocked"
    /\ "events" \notin watcher.closed
    /\ sent < MaxSent
    /\ Len(wEvents) < MaxQueue
    /\ sent' = sent + 1
    /\ wEvents' = Append(wEvents, [n |-> sent + 1, path |-> p, op |-> op])
    /\ UNCHANGED <<goMain, goWatch, taken, active, watcher>>
    /\ LoopOnly

\* the watcher puts an error on w.Errors
Fs_Error ==
    /\ goMain.pc = "blocked"
    /\ "errors" \notin watcher.closed
    /\ watcher.errors < MaxErrs
    /\ watcher' = [watcher EXCEPT !.errors = @ + 1]
    /\ UNCHANGED <<goMain, goWatch, wEvents, sent, taken, active>>
    /\ LoopOnly

\* one of the watcher's channels is closed
Fs_Close(c) ==
    /\ goMain.pc = "blocked"
    /\ c \notin watcher.closed
    /\ watcher' = [watcher EXCEPT !.closed = @ \cup {c}]
    /\ UNCHANGED <<goMain, goWatch, wEvents, sent, taken, active>>
    /\ LoopOnly

\* mutant: the loop goes back to its select while the call is running
CanReceive_WhileHandling == goWatch \in {"select", "handling"}

\* the loop is at its select only between calls: handleNewFile is called, not spawned
CanReceive == goWatch = "select"

\* defer file.Close() is inside the for statement of watchLoop: the deferred
\* calls run when watchLoop returns, not at the end of the turn
W_Receive ==
    /\ CanReceive
    /\ wEvents # <<>>
    /\ wEvents' = Tail(wEvents)
    /\ taken' = Append(taken, Head(wEvents).n)
    /\ \/ /\ Head(wEvents).op \in {"create", "rename"}
          /\ checkShouldIncludeFile(PathName[Head(wEvents).path])
          /\ goWatch' = "handling"
          /\ active' = active + 1
          /\ watcher' = [watcher EXCEPT !.open = @ + 1]
       \/ \* os.Open succeeds; Stat fails or the file is not included
          /\ Head(wEvents).op \in {"create", "rename"}
          /\ watcher' = [watcher EXCEPT !.open = @ + 1]
          /\ UNCHANGED <<goWatch, active>>
       \/ \* another operation, or os.Open fails: the next turn
          UNCHANGED <<goWatch, active, watcher>>
    /\ UNCHANGED <<goMain, sent>>
    /\ LoopOnly

\* handleNewFile returns, with an error (printed) or without
W_CallReturns ==
    /\ goWatch = "handling"
    /\ goWatch' = "select"
    /\ active' = active - 1
    /\ UNCHANGED <<goMain, wEvents, sent, taken, watcher>>
    /\ LoopOnly

\* handleNewFile panics in the goroutine of watchLoop: the process ends
W_CallPanics ==
    /\ goWatch = "handling"
    /\ goWatch' = "dead"
    /\ goMain' = [goMain EXCEPT !.pc = "dead"]
    /\ active' = active - 1
    /\ UNCHANGED <<wEvents, sent, taken, watcher>>
    /\ LoopOnly

\* case err, ok := <-w.Errors with ok: the error is printed
W_Error ==
    /\ goWatch = "select"
    /\ watcher.errors > 0
    /\ watcher' = [watcher EXCEPT !.errors = @ - 1]
    /\ UNCHANGED <<goMain, goWatch, wEvents, sent, taken, active>>
    /\ LoopOnly

\* a receive from a closed and drained channel gives ok = false: watchLoop
\* returns and its deferred calls close the files
W_Stop ==
    /\ goWatch = "select"
    /\ \/ "events" \in watcher.closed /\ wEvents = <<>>
       \/ "errors" \in watcher.closed /\ watcher.errors = 0
    /\ goWatch' = "stopped"
    /\ watcher' = [watcher EXCEPT !.open = 0]
    /\ UNCHANGED <<goMain, wEvents, sent, taken, active>>
    /\ LoopOnly

LoopProgram ==
    \/ M_Walk
    \/ M_Call
    \/ M_CallReturns
    \/ M_CallPanics
    \/ M_NextProject
    \/ M_Spawn
    \/ M_Add
    \/ W_Receive
    \/ W_CallReturns
    \/ W_CallPanics
    \/ W_Error
    \/ W_Stop

LoopNext ==
    \/ M_Walk
    \/ M_Call
    \/ M_CallReturns
    \/ M_CallPanics
    \/ M_NextProject
    \/ M_Spawn
    \/ M_Add
    \/ \E p \in Paths, op \in EventOps : Fs_Event(p, op)
    \/ Fs_Error
    \/ \E c \in {"events", "errors"} : Fs_Close(c)
    \/ W_Receive
    \/ W_CallReturns
    \/ W_CallPanics
    \/ W_Error
    \/ W_Stop

LoopSpec == SideInit /\ [][LoopNext]_vars

\* every step of the two goroutines that can be taken is taken in the end
LoopFairSpec == SideInit /\ [][LoopNext]_vars /\ WF_vars(LoopProgram)

\* ------------------------------------------------------------------ C13
\* C13: in one process at most one handleNewFile call is in progress in every
\* state, and watchLoop receives the events in the order they were delivered:
\* the i-th event it takes is the i-th event that arrived.
C13_OneAtATime ==
    /\ active <= 1
    /\ \A i \in 1..Len(taken) : taken[i] = i

C13_Witness ==
    /\ Len(taken) = 2
    /\ goWatch = "handling"
    /\ active = 1
    /\ wEvents # <<>>

\* -------------------------------------------------- the inclusion filter
NameChars == {".", "m", "t"}
\* the names given to the filter: every short name over NameChars, and some of
\* them with the suffix of a partial download
FileNames ==
    LET short == SeqsUpTo(NameChars, MaxName) \ {<<>>}
    IN  short \cup {n \o ignoreFileSuffix : n \in {s \in short : Len(s) = 1}}
AllowLists == SUBSET {<<".", "m">>, <<".", "t">>}

F_Check(name, allow) ==
    /\ fcall' = [pc |-> "done", name |-> name, allow |-> allow,
                 out |-> IncludeFile(name, allow)]
    /\ FilterOnly

FilterNext == \E name \in FileNames, allow \in AllowLists : F_Check(name, allow)

FilterSpec == SideInit /\ [][FilterNext]_vars

\* ------------------------------------------------------------------ C14
Hidden(name) == name[1] = "."
Partial(name) == Ext(name) = ignoreFileSuffix

\* C14 (as stated): the filter excludes a name that starts with '.', excludes
\* the extension '.partial', includes an extension of the allow-list, and with
\* an empty allow-list includes every name the first two rules do not exclude.
C14_Claim ==
    fcall.pc = "done" =>
        /\ Hidden(fcall.name) => ~fcall.out
        /\ Partial(fcall.name) => ~fcall.out
        /\ (~Hidden(fcall.name) /\ ~Partial(fcall.name) /\ Ext(fcall.name) \in fcall.allow)
              => fcall.out
        /\ (~Hidden(fcall.name) /\ ~Partial(fcall.name) /\ fcall.allow = {})
              => fcall.out

\* ------------------------------------------------------------------ C15
\* the project whose root is the longest configured root that is a prefix of
\* the file's directory
LongestRoot(p) ==
    CHOOSE q \in ProjectIds :
        /\ IsPrefix(ProjectPath[q], PathDir[p])
        /\ \A r \in ProjectIds :
             IsPrefix(ProjectPath[r], PathDir[p]) => Len(ProjectPath[r]) <= Len(ProjectPath[q])

\* C15 (as stated): every handleNewFile call, of the scan and of the watch
\* loop, is made with the project of the longest root containing the file.
C15_Claim == h.pc # "idle" => h.proj = LongestRoot(h.path)

\* ------------------------------------------- the annotation of a metadata record
\* a metadata record is a function from its keys to their values
GenericMetadata(name) ==
    [k \in {"media_type", "asset_origin", "file_name", "last_modified", "time_created"} |->
        IF k = "file_name" THEN name ELSE IF k = "media_type" THEN "image/png" ELSE k]
ProofModeMetadata(name) ==
    [k \in {"file_name", "last_modified", "time_created", "asset_origin", "asset_signature",
            "media_type", "proofmode"} |->
        IF k = "file_name" THEN name ELSE IF k = "media_type" THEN "application/zip" ELSE k]
WaczMetadata ==
    [k \in {"last_modified", "time_created", "asset_origin", "asset_signature",
            "media_type", "wacz"} |->
        IF k = "media_type" THEN "application/wacz" ELSE k]
\* the records getFileMetadata, getProofModeFileMetadatas and getWaczFileMetadata make
ProducedMetadata ==
    {GenericMetadata(n) : n \in {"m.j", "n.t"}}
      \cup {ProofModeMetadata(n) : n \in {"m.j", "n.t"}}
      \cup {WaczMetadata}

\* the rows of project_metadata: a root as its segments, possibly with a
\* trailing separator or a "." segment; author columns possibly empty
ProjectRows ==
    [ProjectId : ProjectIds,
     ProjectPath : {<<"a", "b">>, <<"a", ".", "b", "">>},
     AuthorType : {"", "Person"},
     AuthorName : {"", "ann"},
     AuthorIdentifier : {"", "id1"}]

\* filepath.Clean: no "." segment, no empty segment
Clean(path) == SelectSeq(path, LAMBDA x : x # "." /\ x # "")

\* m[k] = v of a Go map: the key is added, or its value replaced
Put(m, k, v) == [x \in DOMAIN m \cup {k} |-> IF x = k THEN v ELSE m[x]]

AuthorFields(project) ==
    [k \in {"@type", "name", "identifier"} |->
        IF k = "@type" THEN project.AuthorType
        ELSE IF k = "name" THEN project.AuthorName
        ELSE project.AuthorIdentifier]

\* mutant: every subfield is written, empty or not
AuthorOf_All(project) == AuthorFields(project)

\* the author map: one entry per non-empty column
AuthorOf(project) ==
    [k \in {x \in {"@type", "name", "identifier"} : AuthorFields(project)[x] # ""} |->
        AuthorFields(project)[k]]

Annotate(metadata, project) ==
    LET m1 == Put(metadata, "project_id", project.ProjectId)
        m2 == Put(m1, "project_path", Clean(project.ProjectPath))
    IN  IF project.AuthorType # "" \/ project.AuthorName # "" \/ project.AuthorIdentifier # ""
        THEN Put(m2, "author", AuthorOf(project))
        ELSE m2

A_Annotate(metadata, project) ==
    /\ acall' = [pc |-> "done", before |-> metadata, project |-> project,
                 after |-> Annotate(metadata, project)]
    /\ AnnotOnly

AnnotNext == \E metadata \in ProducedMetadata, project \in ProjectRows : A_Annotate(metadata, project)

AnnotSpec == SideInit /\ [][AnnotNext]_vars

\* ------------------------------------------------------------------ C16
NonEmptyAuthorKeys(project) ==
    {k \in {"@type", "name", "identifier"} : AuthorFields(project)[k] # ""}

ProjectRowOf(q) ==
    [ProjectId |-> q, ProjectPath |-> ProjectPath[q], AuthorType |-> "",
     AuthorName |-> IF q = "A" THEN "ann" ELSE "", AuthorIdentifier |-> ""]

\* the file name the i-th asset of a bundle lists
AssetName(i) == IF i = 1 THEN "m.j" ELSE IF i = 2 THEN "n.t" ELSE "o.t"

\* getProofModeFileMetadatas: one record per asset, in list order
BundleRecords(k) == [i \in 1..Len(k.assets) |-> ProofModeMetadata(AssetName(i))]

\* what the annotation put into a record
AnnotationOf(m) == [k \in {"project_id", "project_path", "author"} \cap DOMAIN m |-> m[k]]

AllAssetsPresent(p) == \A i \in 1..Len(kind[p].assets) : kind[p].assets[i] = "ok"

ErrorOf(msg, code) == [msg |-> msg, code |-> code]
NilErr == ErrorOf("<nil>", 0)
NoResp == "<no response>"

PostOpts == [Source : {"", "proofmode"}, ProjectId : {"", "A"}, Format : {"json", "cbor"}]

\* url.String(): the path, and "?" with the encoded query when RawQuery is set
UrlString(url) == [path |-> url.path, query |-> url.RawQuery]

\* urlpkg.Parse of "http://host/sourcePath": no query in the string parsed
ParseUrl(sourcePath) == [path |-> sourcePath, RawQuery |-> {}]

\* url.Query() parses RawQuery into a new Values; q.Add changes that copy only
QueryCopy(url, opts) ==
    IF opts.ProjectId # "" THEN url.RawQuery \cup {<<"project_id", opts.ProjectId>>}
    ELSE url.RawQuery

SourcePath(opts) == IF opts.Source = "" THEN "generic" ELSE opts.Source

\* what client.Do comes back with: a transport error, or a status and a body
StatusCodes == {200, 201, 400, 404, 500}
Bodies == {"cid", "cid and error", "not json"}
Exchanges ==
    {[err |-> ErrorOf("transport error", 0), status |-> 0, body |-> ""]}
      \cup [err : {NilErr}, status : StatusCodes, body : Bodies]

\* json Decode into PostGenericWebhookResponse: a non-null "error" cannot be
\* stored in a field of interface type error
DecodeErr(body) ==
    IF body = "cid" THEN NilErr
    ELSE IF body = "cid and error" THEN ErrorOf("json: cannot unmarshal", 0)
    ELSE ErrorOf("invalid character", 0)

W_Returns(resp, e) == wcall' = [wcall EXCEPT !.pc = "returned", !.resp = resp, !.ret = e]

\* the producer's own failures: metadata that cannot be encoded, a file that
\* cannot be read to its end
Faults == {"none", "encode", "copy"}

\* the producer's steps that write to the pipe, in program order: the format
\* field (53), the metadata (59-79), the header of the file part (81), the
\* file (86), the closing boundary (91)
WriteSteps == <<"field", "meta", "part", "copy", "trailer">>
IsWriteStep(st) == \E i \in 1..Len(WriteSteps) : WriteSteps[i] = st
StepAfter(st) ==
    IF st = "field" THEN "assign"
    ELSE IF st = "meta" THEN "part"
    ELSE IF st = "part" THEN "copy"
    ELSE IF st = "copy" THEN "trailer"
    ELSE "done"

\* the step at which the producer itself fails in this call
FaultStep(fault) == IF fault = "encode" THEN "meta" ELSE IF fault = "copy" THEN "copy" ELSE "never"

\* pw.CloseWithError(e) on a pipe that is still open; a closed pipe stays as it is
CloseWithError(w, e) ==
    IF w.pipe = "open" THEN [w EXCEPT !.pipe = "wclosed", !.perr = e] ELSE w

\* lines 32-52: the URL, the query copy, the pipe, the producer is started
W_Call(opts, fault) ==
    /\ wcall.pc = "none" \/ (wcall.pc = "returned" /\ wcall.prod = "done")
    /\ wcall' = [pc |-> "request", opts |-> opts, fault |-> fault,
                 url |-> ParseUrl(SourcePath(opts)),
                 q |-> QueryCopy(ParseUrl(SourcePath(opts)), opts),
                 err |-> NilErr, prod |-> "field", wr |-> "idle", val |-> NilErr,
                 pfail |-> "", pipe |-> "open", perr |-> NilErr, req |-> NoResp,
                 ex |-> [err |-> NilErr, status |-> 0, body |-> ""],
                 resp |-> NoResp, ret |-> NilErr]
    /\ WebhookOnly

\* the process is running and the producer is at a step
Producing == wcall.pc \notin {"none", "panic"}

\* a Write on the pipe: it waits until the read end has taken the bytes
P_Write ==
    /\ Producing
    /\ IsWriteStep(wcall.prod) /\ wcall.prod # FaultStep(wcall.fault)
    /\ wcall.wr = "idle" /\ wcall.pipe = "open"
    /\ wcall' = [wcall EXCEPT !.wr = "pending"]
    /\ WebhookOnly

\* the Write returns nil; after the closing boundary, pw.CloseWithError(nil)
P_Written ==
    /\ Producing
    /\ IsWriteStep(wcall.prod) /\ wcall.wr = "taken"
    /\ LET w == [wcall EXCEPT !.wr = "idle", !.val = NilErr, !.prod = StepAfter(wcall.prod)]
       IN  wcall' = IF wcall.prod = "trailer" THEN CloseWithError(w, NilErr) ELSE w
    /\ WebhookOnly

\* the read end was closed: the Write returns io.ErrClosedPipe; the first
\* WriteField hands it to the shared err at line 53, the later steps return
P_WriteFails ==
    /\ Producing
    /\ IsWriteStep(wcall.prod) /\ wcall.prod # FaultStep(wcall.fault)
    /\ wcall.wr \in {"idle", "pending"} /\ wcall.pipe = "rclosed"
    /\ wcall' = IF wcall.prod = "field"
                THEN [wcall EXCEPT !.wr = "idle", !.prod = "assign",
                                   !.val = ErrorOf("closed pipe", 0)]
                ELSE [wcall EXCEPT !.wr = "idle", !.prod = "done", !.pfail = wcall.prod]
    /\ WebhookOnly

\* line 53: the assignment to the err of PostFileToWebHook, then lines 54-57
P_Assign ==
    /\ Producing
    /\ wcall.prod = "assign"
    /\ wcall' = IF wcall.val = NilErr
                THEN [wcall EXCEPT !.err = NilErr, !.prod = "meta"]
                ELSE [CloseWithError(wcall, wcall.val) EXCEPT
                         !.err = wcall.val, !.prod = "done", !.pfail = "field"]
    /\ WebhookOnly

\* json.Marshal or the cbor encoder fails (64-73), or io.Copy meets a read
\* error of the file (86-90): pw.CloseWithError(err); return
P_OwnFault ==
    /\ Producing
    /\ wcall.prod = FaultStep(wcall.fault) /\ wcall.wr = "idle"
    /\ wcall' = [CloseWithError(wcall, ErrorOf(wcall.fault, 0)) EXCEPT
                    !.prod = "done", !.pfail = wcall.prod]
    /\ WebhookOnly

\* line 93: req, err := http.NewRequest("POST", url.String(), pr)
W_NewRequest ==
    /\ wcall.pc = "request"
    /\ wcall' = [wcall EXCEPT !.pc = "do", !.req = UrlString(wcall.url), !.err = NilErr]
    /\ WebhookOnly

\* inside client.Do the transport reads the request body from the pipe
T_Read ==
    /\ wcall.pc = "do"
    /\ wcall.wr = "pending" /\ wcall.pipe = "open"
    /\ wcall' = [wcall EXCEPT !.wr = "taken"]
    /\ WebhookOnly

\* the exchanges client.Do can end with: the backend answers 200 only to a
\* body it received whole, and a body that ended with the producer's error
\* fails the request or is answered with a refusal
PossibleExchanges(w) ==
    {ex \in Exchanges :
        /\ (ex.err = NilErr /\ ex.status = 200) => (w.pipe = "wclosed" /\ w.perr = NilErr)
        /\ (w.pipe = "wclosed" /\ w.perr = NilErr) => w.wr = "idle"}

\* line 103: resp, err := client.Do(req); the transport closes the request body
W_Do ==
    /\ wcall.pc = "do"
    /\ \E ex \in PossibleExchanges(wcall) :
         wcall' = [wcall EXCEPT !.pc = "check", !.ex = ex, !.err = ex.err,
                                !.pipe = IF @ = "open" THEN "rclosed" ELSE @]
    /\ WebhookOnly

\* lines 104-107: the test of err, then defer resp.Body.Close() on the response
W_CheckDo ==
    /\ wcall.pc = "check"
    /\ IF wcall.err # NilErr THEN W_Returns(NoResp, wcall.err)
       ELSE IF wcall.ex.err # NilErr
       THEN wcall' = [wcall EXCEPT !.pc = "panic"]
       ELSE wcall' = [wcall EXCEPT !.pc = "status"]
    /\ WebhookOnly

\* lines 109-117
W_Status ==
    /\ wcall.pc = "status"
    /\ IF wcall.ex.status \in {400, 404} THEN W_Returns(NoResp, ErrorOf("bad request", 0))
       ELSE IF wcall.ex.status # 200
       THEN W_Returns(NoResp, ErrorOf("bad status code in response", wcall.ex.status))
       ELSE wcall' = [wcall EXCEPT !.pc = "decode"]
    /\ WebhookOnly

\* line 119: err = json.NewDecoder(resp.Body).Decode(&value)
W_Decode ==
    /\ wcall.pc = "decode"
    /\ wcall' = [wcall EXCEPT !.pc = "checkdecode", !.err = DecodeErr(wcall.ex.body)]
    /\ WebhookOnly

\* lines 120-123
W_CheckDecode ==
    /\ wcall.pc = "checkdecode"
    /\ IF wcall.err # NilErr THEN W_Returns(NoResp, wcall.err)
       ELSE W_Returns(wcall.ex.body, NilErr)
    /\ WebhookOnly

WebhookProgram ==
    \/ P_Write
    \/ P_Written
    \/ P_WriteFails
    \/ P_Assign
    \/ P_OwnFault
    \/ W_NewRequest
    \/ T_Read
    \/ W_Do
    \/ W_CheckDo
    \/ W_Status
    \/ W_Decode
    \/ W_CheckDecode

WebhookNext ==
    \/ \E opts \in PostOpts, fault \in Faults : W_Call(opts, fault)
    \/ P_Write
    \/ P_Written
    \/ P_WriteFails
    \/ P_Assign
    \/ P_OwnFault
    \/ W_NewRequest
    \/ T_Read
    \/ W_Do
    \/ W_CheckDo
    \/ W_Status
    \/ W_Decode
    \/ W_CheckDecode

WebhookSpec == SideInit /\ [][WebhookNext]_vars

\* every step of the two routines and of the exchange that can be taken is taken
WebhookFairSpec == SideInit /\ [][WebhookNext]_vars /\ WF_vars(WebhookProgram)

\* ------------------------------------------------------------------ C18
WReturned == wcall.pc = "returned"

\* C18 (as stated): for status 400 and 404 the call returns the rejected-request
\* error and no response; for every other status that is not 200 an error
\* carrying the status code and no response; it returns a response only for
\* status 200 with a body that decodes.
C18_Claim ==
    (WReturned /\ wcall.ex.err = NilErr) =>
        /\ wcall.ex.status \in {400, 404} =>
              wcall.resp = NoResp /\ wcall.ret = ErrorOf("bad request", 0)
        /\ wcall.ex.status \notin {200, 400, 404} =>
              /\ wcall.resp = NoResp
              /\ wcall.ret = ErrorOf("bad status code in response", wcall.ex.status)
        /\ wcall.resp # NoResp =>
              wcall.ex.status = 200 /\ DecodeErr(wcall.ex.body) = NilErr

\* ------------------------------------------------------------------ C19
\* C19 (as stated): the URL of the request has the Source option as its path,
\* 'generic' when Source is empty, and the query project_id=<id> exactly when
\* the ProjectId option is non-empty.
C19_Claim ==
    wcall.pc \notin {"none", "request"} =>
        /\ wcall.req.path = (IF wcall.opts.Source = "" THEN "generic" ELSE wcall.opts.Source)
        /\ wcall.req.query = (IF wcall.opts.ProjectId # ""
                              THEN {<<"project_id", wcall.opts.ProjectId>>} ELSE {})

\* ---------------------------------------------------------- getFileMetadata
\* The three shapes of the hashing getFileMetadata. All open the file and feed
\* what they read to sha256, md5 and blake3; they differ in what drives the
\* reading: mimetype.DetectReader (file.go), io.ReadAll (part_003), io.Copy
\* (part_005). A file is its sequence of bytes, read one byte per step.
Bytes == {"x", "y"}
FileContents == SeqsUpTo(Bytes, MaxLen)
Readers == {"DetectReader", "ReadAll", "Copy"}

\* mimetype.DetectReader reads the header of its input and no more: the
\* library's fixed read limit, in bytes of this model
ReadLimit == 2

\* a digest stands for the bytes its hash was given
Digest(alg, bytes) == <<alg, bytes>>

\* the driver asks the file for another byte after having read n
WantsMore(reader, n) == IF reader = "DetectReader" THEN n < ReadLimit ELSE TRUE

G_Open(content, reader) ==
    /\ mcall.pc \in {"none", "done", "failed"}
    /\ mcall' = [pc |-> "reading", content |-> content, reader |-> reader,
                 seen |-> <<>>, sha |-> <<>>, md |-> <<>>, blake |-> <<>>,
                 out |-> [k \in {} |-> <<>>]]
    /\ MetadataOnly

\* one Read through the tee chain: the byte goes to the three hashes
G_Read ==
    /\ mcall.pc = "reading"
    /\ WantsMore(mcall.reader, Len(mcall.seen))
    /\ Len(mcall.seen) < Len(mcall.content)
    /\ \/ LET b == mcall.content[Len(mcall.seen) + 1]
          IN  mcall' = [mcall EXCEPT !.seen = Append(@, b), !.sha = Append(@, b),
                                     !.md = Append(@, b), !.blake = Append(@, b)]
       \/ \* the read fails: the call returns the error and no record
          mcall' = [mcall EXCEPT !.pc = "failed"]
    /\ MetadataOnly

\* the driver stops (end of file, or its limit): the digests are emitted
G_Sum ==
    /\ mcall.pc = "reading"
    /\ ~WantsMore(mcall.reader, Len(mcall.seen)) \/ Len(mcall.seen) = Len(mcall.content)
    /\ mcall' = [mcall EXCEPT !.pc = "done",
                              !.out = [k \in {"sha256", "md5", "blake3"} |->
                                          IF k = "sha256" THEN Digest(k, mcall.sha)
                                          ELSE IF k = "md5" THEN Digest(k, mcall.md)
                                          ELSE Digest(k, mcall.blake)]]
    /\ MetadataOnly

MetadataNext ==
    \/ \E content \in FileContents, reader \in Readers : G_Open(content, reader)
    \/ G_Read
    \/ G_Sum

MetadataSpec == SideInit /\ [][MetadataNext]_vars

\* ------------------------------------------------------------------ C20
\* C20 (as stated): a call that emitted its record has read every byte of the
\* file once, in order, and each of its three digests is the digest of the
\* whole content.
C20_Claim ==
    mcall.pc = "done" =>
        /\ mcall.seen = mcall.content
        /\ \A k \in {"sha256", "md5", "blake3"} : mcall.out[k] = Digest(k, mcall.content)

\* ------------------------------------------------------------------ C21
\* C21 (as stated): a handleNewFile call never ends the process: while a call
\* is in progress the process goes down only by a kill from outside.
C21_Claim ==
    [][(h.pc \notin {"idle", "returned"} /\ run'.phase = "down") => crashes' = crashes + 1]_vars

\* ------------------------------------------------------------------ C22
\* C22 (as stated): whatever the moment of the producer's assignment, the call
\* never dereferences a nil response; after a transport error it returns that
\* error and no response; after status 200 with a body that decodes it returns
\* the decoded response and no error.
C22_Claim ==
    /\ wcall.pc # "panic"
    /\ (WReturned /\ wcall.ex.err # NilErr) =>
          wcall.ret = wcall.ex.err /\ wcall.resp = NoResp
    /\ (WReturned /\ wcall.ex.err = NilErr /\ wcall.ex.status = 200
           /\ DecodeErr(wcall.ex.body) = NilErr) =>
          wcall.resp = wcall.ex.body /\ wcall.ret = NilErr

\* ------------------------------------------------------------------ C23
\* C23 (as stated): the step that moves a record to Success is taken by a call
\* that has issued at least one upload request, one accepted request per
\* metadata record it produced.
C23_Claim ==
    [][\A p \in Paths :
          (db[p].status # FileStatusSuccess /\ db'[p].status = FileStatusSuccess)
             => (inv.posts >= 1 /\ inv.stored = h.n)]_vars

\* ------------------------------------------------------------------ C24
\* the changes of a record's status a call may make
StatusMoves ==
    {<<NoRow.status, FileStatusFound>>,
     <<FileStatusFound, FileStatusUploading>>,
     <<FileStatusFound, FileStatusError>>,
     <<FileStatusUploading, FileStatusSuccess>>,
     <<FileStatusUploading, FileStatusError>>}

\* C24: every change of a record's status is made by the call in progress on
\* its path and is one of: none to Found, Found to Uploading, Found or
\* Uploading to Error, Uploading to Success; so no call moves a record out of
\* Success or Error, or into both. An upload request is issued only by a call
\* whose Uploading write reached the store, with the record in Uploading; a
\* call whose Uploading write failed returns without any request. A call that
\* started from a record not in Success or Error and returns, the store
\* answering, leaves the record in Success or Error.
C24_Lifecycle ==
    /\ [](Returned /\ ret.msg = "error setting file status to uploading" => inv.posts = 0)
    /\ []((Returned /\ storeOk /\ ~Filtered /\ inv.start \notin Terminal)
             => db[h.path].status \in Terminal)
    /\ [][/\ \A p \in Paths :
               db'[p].status # db[p].status =>
                  p = h.path /\ <<db[p].status, db'[p].status>> \in StatusMoves
          /\ inv'.posts > inv.posts =>
               inv.marked /\ db[h.path].status = FileStatusUploading]_vars

C24_Witness ==
    /\ Returned
    /\ inv.start = NoRow.status
    /\ inv.marked
    /\ inv.posts = 1
    /\ db[h.path].status = FileStatusError
    /\ inv.failed = "500"

\* ------------------------------------------------------------------ C25
\* C25: watchLoop keeps running after an error received from w.Errors, after an
\* event whose file cannot be opened and after a handleNewFile call that returns
\* an error; it leaves its loop only when one of the watcher's channels has been
\* closed.
C25_Claim ==
    [][(goWatch \in {"select", "handling"} /\ goWatch' \notin {"select", "handling"})
          => watcher.closed # {}]_vars

\* ------------------------------------------------------------------ C26
\* C26: a walk that fails stops Run at no point: the watch loop is started only
\* after every project has been walked, and after a failed walk the watch loop
\* is started in the end unless the process has died meanwhile or the watcher
\* could not be created.
C26_WalkError ==
    /\ [](goWatch # "none" => goMain.walked = 1..Len(Projects))
    /\ (goMain.walkErr # {}) ~> (goWatch # "none" \/ goMain.pc \in {"dead", "nowatcher"})

C26_Witness ==
    /\ 1 \in goMain.walkErr
    /\ goMain.walked = 1..Len(Projects)
    /\ goWatch = "select"

\* ------------------------------------------------------------------ C30
\* C30: when watchLoop takes an event, no file opened for an earlier event is
\* still open.
C30_Claim == [][Len(taken') > Len(taken) => watcher.open = 0]_vars

\* ------------------------------------------------------------------ C27
\* C27: a call for a file whose extension is missing from the non-empty
\* allow-list of its project returns no identifier and no error, has made no
\* store write and no upload and leaves the record of the path as it found it;
\* a call for a project with an empty allow-list goes on to the status query
\* whatever the extension is.
C27_AllowList ==
    /\ []((/\ Returned
           /\ FileExtensions[h.proj] # {}
           /\ Ext(PathName[h.path]) \notin FileExtensions[h.proj])
          => /\ ret = [tag |-> "ok", cid |-> "", msg |-> ""]
             /\ inv.writes = 0
             /\ inv.posts = 0
             /\ db[h.path].status = inv.start)
    /\ [][(/\ h.pc = "idle" /\ h'.pc # "idle"
           /\ FileExtensions[h'.proj] # {}
           /\ Ext(PathName[h'.path]) \notin FileExtensions[h'.proj])
          => db' = db /\ uploads' = uploads /\ h'.pc = "returned"]_vars
    /\ [][(h.pc = "idle" /\ h'.pc # "idle" /\ FileExtensions[h'.proj] = {})
          => h'.pc = "query"]_vars

C27_Witness ==
    /\ Returned
    /\ h.proj = "B" /\ h.path = "p1"
    /\ inv.start = FileStatusSuccess
    /\ db[h.path].status = FileStatusSuccess

\* ------------------------------------------------------------------ C28
\* C28: the classification of a file that can be read and is no bundle,
\* a file of zero bytes included, ends without error and with the type generic.
C28_Claim ==
    [][(/\ h.pc = "classify" /\ h'.pc \notin {"classify", "idle"}
        /\ kind[h.path].type \in {"generic", "empty"}
        /\ h'.err # "io error")
       => h'.pc = "uploading" /\ h'.fileType = "generic"]_vars

\* ------------------------------------------------------------------ C29
\* C29: when the request path of a call has ended and a step of the producer
\* has failed, the call has returned an error.
C29_Claim ==
    (wcall.pc \in {"returned", "panic"} /\ wcall.pfail # "") =>
        (WReturned /\ wcall.ret # NilErr)

\* the handshake on the pipe itself, given an exchange that ends: a call that
\* was started leads to a state where the request path has returned and the
\* producer has ended, or the process has ended in the panic of line 107
C29_Handshake ==
    (wcall.pc = "request") ~> ((WReturned /\ wcall.prod = "done") \/ wcall.pc = "panic")

\* a failure of the producer's own that the exchange met gives an error
C29_OwnFault ==
    (WReturned /\ wcall.pfail = FaultStep(wcall.fault)) => wcall.ret # NilErr

\* ---------------------------------------------------- ParseJsonToAttributes
\* One call, one turn of a range statement per step. A Go map is a function
\* from the keys it holds to their values; range visits the keys of a map in
\* an order the language leaves open; the result is the slice of the appended
\* aa.PostKV values.
AttrKeys == {"private", "a", "b"}
AttrValues == {"x", "y"}
AttrMaps == UNION {[D -> AttrValues] : D \in SUBSET AttrKeys}

PostKV(k, v) == [Key |-> k, Value |-> v]

\* mutant: every key of the JSON map is kept
KeepJsonKey_All(k) == TRUE

\* line 15: if k != "private"
KeepJsonKey(k) == k # "private"

J_Call(jsonMap, fileAttributes) ==
    /\ jcall.pc \in {"none", "returned"}
    /\ jcall' = [pc |-> "json", jsonMap |-> jsonMap, fileAttributes |-> fileAttributes,
                 left |-> DOMAIN jsonMap, attributes |-> <<>>]
    /\ AttributesOnly

\* lines 13-18: one turn of the range over jsonMap
J_RangeJson ==
    /\ jcall.pc = "json"
    /\ \E k \in jcall.left :
         jcall' = [jcall EXCEPT
                      !.left = @ \ {k},
                      !.attributes = IF KeepJsonKey(k)
                                     THEN Append(@, PostKV(k, jcall.jsonMap[k]))
                                     ELSE @]
    /\ AttributesOnly

\* the first range is over: the range over fileAttributes begins
J_NextRange ==
    /\ jcall.pc = "json" /\ jcall.left = {}
    /\ jcall' = [jcall EXCEPT !.pc = "file", !.left = DOMAIN jcall.fileAttributes]
    /\ AttributesOnly

\* lines 20-22: one turn of the range over fileAttributes
J_RangeFile ==
    /\ jcall.pc = "file"
    /\ \E k \in jcall.left :
         jcall' = [jcall EXCEPT
                      !.left = @ \ {k},
                      !.attributes = Append(@, PostKV(k, jcall.fileAttributes[k]))]
    /\ AttributesOnly

\* line 24: return attributes
J_Return ==
    /\ jcall.pc = "file" /\ jcall.left = {}
    /\ jcall' = [jcall EXCEPT !.pc = "returned"]
    /\ AttributesOnly

AttributesNext ==
    \/ \E jsonMap \in AttrMaps, fileAttributes \in AttrMaps : J_Call(jsonMap, fileAttributes)
    \/ J_RangeJson
    \/ J_NextRange
    \/ J_RangeFile
    \/ J_Return

AttributesSpec == SideInit /\ [][AttributesNext]_vars

\* ------------------------------------------------------------------ C31
JReturned == jcall.pc = "returned"
Occurrences(kv) == Cardinality({i \in 1..Len(jcall.attributes) : jcall.attributes[i] = kv})
FromJson(kv) ==
    IF kv.Key \in DOMAIN jcall.jsonMap \ {"private"} /\ jcall.jsonMap[kv.Key] = kv.Value
    THEN 1 ELSE 0
FromFile(kv) ==
    IF kv.Key \in DOMAIN jcall.fileAttributes /\ jcall.fileAttributes[kv.Key] = kv.Value
    THEN 1 ELSE 0
ExactAttributes ==
    \A k \in AttrKeys, v \in AttrValues :
        Occurrences(PostKV(k, v)) = FromJson(PostKV(k, v)) + FromFile(PostKV(k, v))

\* C31 (as stated): the returned slice holds one attribute for every key of the
\* JSON map other than 'private' and one for every key of the file-attribute
\* map, nothing else, and no attribute of it has the value the JSON map holds
\* under 'private'.
C31_Claim ==
    JReturned =>
        /\ ExactAttributes
        /\ "private" \in DOMAIN jcall.jsonMap =>
              \A i \in 1..Len(jcall.attributes) :
                  jcall.attributes[i].Value # jcall.jsonMap["private"]

\* C31 (amended): the returned slice holds exactly one attribute, with the
\* key's value, for every key of the JSON map other than 'private' and one for
\* every key of the file-attribute map, 'private' included, and nothing else;
\* the attributes of the JSON map come first.
C31_Attributes ==
    JReturned =>
        /\ ExactAttributes
        /\ Len(jcall.attributes) = Cardinality(DOMAIN jcall.jsonMap \ {"private"})
                                     + Cardinality(DOMAIN jcall.fileAttributes)
        /\ \A i \in 1..Len(jcall.attributes) :
              i <= Cardinality(DOMAIN jcall.jsonMap \ {"private"})
                 => /\ jcall.attributes[i].Key \in DOMAIN jcall.jsonMap \ {"private"}
                    /\ jcall.attributes[i].Value = jcall.jsonMap[jcall.attributes[i].Key]

\* a call whose JSON map holds 'private' and, under another key, the same
\* value, and whose file-attribute map holds 'private' too
C31_Witness ==
    /\ JReturned
    /\ {"private", "a"} \subseteq DOMAIN jcall.jsonMap
    /\ jcall.jsonMap["a"] = jcall.jsonMap["private"]
    /\ "private" \in DOMAIN jcall.fileAttributes
    /\ Len(jcall.attributes) >= 2
====
